---- MODULE Spec2Model ----
(***************************************************************************)
(* The session time-tracking accumulator of src/app.py: update_time_spent  *)
(* (lines 112-130) together with the login and logout handlers that create *)
(* and destroy the session checkpoint, the dashboard/profile handlers that *)
(* call it, the clock (datetime.utcnow) and the commit of the user row.    *)
(*                                                                         *)
(* Time is in whole seconds.  A Flask session and a database row are       *)
(* modelled as Python dicts: functions from key strings to integers, where *)
(* an absent key is session.get(..) returning None / a NULL column.        *)
(***************************************************************************)
EXTENDS Integers

VARIABLES
    now,          \* the clock: datetime.utcnow().timestamp()
    cookie,       \* the session as the client holds it between requests
    db_user,      \* the persisted row of the user (column total_minutes)
    req,          \* per request slot: position, session copy, loaded user
    last,         \* history: the last handler that ran and what it found
    login_at,     \* history: clock value of the last successful login
    base_total,   \* history: persisted total at the last successful login
    out_total,    \* history: persisted total at the last logout (0 before any)
    backs,        \* history: how many times the clock was set back
    had_logout,   \* history: some logout happened before
    ticked,       \* history: a tick ran since the last login
    commit_failed,\* history: a commit failed since the last login
    overlap,      \* history: a request started while another was in flight
    double_counted, \* history: two requests credited from one checkpoint
    overwritten,  \* history: a tick's response replaced a checkpoint that
                  \* it had not read
    others_ran,   \* history: a handler other than a successful login and
                  \* the ticks ran
    started       \* history: how many requests were sent in flight

vars == <<now, cookie, db_user, req, last, login_at, base_total, out_total,
          backs, had_logout, ticked, commit_failed, overlap, double_counted,
          overwritten, others_ran, started>>

-----------------------------------------------------------------------------
(* Bounds of the model *)

\* the clock stops advancing at MaxTime seconds
MaxTime == 210

\* the clock is set back at most MaxBacks times
MaxBacks == 1

\* at most MaxRequests requests are sent in the concurrent specification
MaxRequests == 4

\* the clock of the concurrent specification stops at MaxRaceTime seconds
MaxRaceTime == 120

\* largest clock value and checkpoint drawn as an input of SpecFn is
\* FnStep * MaxFnSlots seconds
MaxFnSlots == 5

\* the amounts (seconds) by which the clock moves between requests
Deltas == {40, 45, 60, 85, 125}

\* the amounts by which the clock moves in the concurrent specification
RaceDeltas == {45, 60}

\* spacing of the input instants of SpecFn
FnStep == 25

\* request slots that may be in flight together
Reqs == {1, 2}

-----------------------------------------------------------------------------
(* Python dicts *)

EmptyDict == [k \in {} |-> 0]

Has(d, k) == k \in DOMAIN d

Put(d, k, v) == [x \in (DOMAIN d) \cup {k} |-> IF x = k THEN v ELSE d[x]]

Pop(d, k) == [x \in (DOMAIN d) \ {k} |-> d[x]]

\* current_user.is_authenticated: flask-login keeps the user id in the session
is_authenticated(sess) == Has(sess, "_user_id")

\* "current_user.total_minutes or 0" (lines 215, 359)
TotalOf(usr) == IF Has(usr, "total_minutes") THEN usr["total_minutes"] ELSE 0

\* User(...) at registration: total_minutes = Column(Integer, default=0)
NewUser == [k \in {"total_minutes"} |-> 0]

-----------------------------------------------------------------------------
(* update_time_spent, lines 112-130 *)

SecondsPerMinute == 60

\* line 121: minutes = int(elapsed_seconds // 60), floor division
MinutesCeil(elapsed_seconds) ==
    (elapsed_seconds + SecondsPerMinute - 1) \div SecondsPerMinute

Minutes(elapsed_seconds) == elapsed_seconds \div SecondsPerMinute

\* line 122: if minutes >= 1
CreditsNonZero(minutes) == minutes # 0

CreditsAlways(minutes) == minutes >= 0

Credits(minutes) == minutes >= 1

\* line 126: session["session_start"] = now
CheckpointWholeMinutes(start, t, minutes) == start + SecondsPerMinute * minutes

CheckpointStays(start, t, minutes) == start

Checkpoint(start, t, minutes) == t

\* lines 117-119: no checkpoint in the session
BaselineKeep(sess, t) == sess

Baseline(sess, t) == Put(sess, "session_start", t)

\* lines 123-125: total_minutes None -> 0, then += minutes
AddMinutes(usr, minutes) ==
    Put(usr, "total_minutes", TotalOf(usr) + minutes)

\* lines 127-130: commit writes the loaded object; on an exception rollback
\* discards the pending change and the row keeps its persisted value
Commit(row, usr, commit_ok) == IF commit_ok THEN usr ELSE row

\* Lines 113-126, up to the commit.  sess: the request's session; usr: the
\* user object the request loaded; t: the clock read at line 116.  Result:
\* the session and the user object as line 127 finds them, the minutes
\* added, and whether the commit of line 128 is reached.
BeforeCommit(sess, usr, t) ==
    IF ~is_authenticated(sess)
    THEN [session |-> sess, user |-> usr, minutes |-> 0, commits |-> FALSE]
    ELSE IF ~Has(sess, "session_start")
    THEN [session |-> Baseline(sess, t), user |-> usr, minutes |-> 0,
          commits |-> FALSE]
    ELSE LET start == sess["session_start"]
             elapsed_seconds == t - start
             minutes == Minutes(elapsed_seconds)
         IN  IF Credits(minutes)
             THEN [session |-> Put(sess, "session_start",
                                   Checkpoint(start, t, minutes)),
                   user    |-> AddMinutes(usr, minutes),
                   minutes |-> minutes,
                   commits |-> TRUE]
             ELSE [session |-> sess, user |-> usr, minutes |-> 0,
                   commits |-> FALSE]

\* The whole function, run without another request in between.  row: the
\* persisted row at commit time; commit_ok: whether db.session.commit()
\* succeeds.  Result: the request's session and user object afterwards, and
\* the row.
update_time_spent(sess, usr, row, t, commit_ok) ==
    LET c == BeforeCommit(sess, usr, t)
    IN  IF c.commits
        THEN [session |-> c.session,
              user    |-> Commit(row, c.user, commit_ok),
              db      |-> Commit(row, c.user, commit_ok)]
        ELSE [session |-> c.session, user |-> usr, db |-> row]

\* whether this call reaches line 128 and the commit raises
CommitFails(sess, t, commit_ok) ==
    /\ is_authenticated(sess)
    /\ Has(sess, "session_start")
    /\ Credits(Minutes(t - sess["session_start"]))
    /\ ~commit_ok

\* admin_login, lines 373-374, and admin_logout, lines 382-383: they write
\* the session (is_admin, the flashed message) and leave the rest of it
AdminLoginSession(sess) == Put(sess, "is_admin", 1)

AdminLogoutSession(sess) == Pop(sess, "is_admin")

\* lines 177-178: login_user(user); session["session_start"] = now
LoginSession(sess, t) == Put(Put(sess, "_user_id", 1), "session_start", t)

\* lines 188-189: session.pop("session_start", None); logout_user()
LogoutKeepsCheckpoint(sess) == Pop(sess, "_user_id")

LogoutSession(sess) == Pop(Pop(sess, "session_start"), "_user_id")

-----------------------------------------------------------------------------
(* State after construction: one registered user, nobody logged in *)

IdleReq == [pc |-> "idle", kind |-> "none", session |-> EmptyDict,
            user |-> EmptyDict, read |-> EmptyDict, modified |-> FALSE,
            pending |-> 0, credit |-> 0]

NoOp == [op |-> "none", session |-> EmptyDict, user |-> EmptyDict,
         now |-> 0, commit_ok |-> TRUE, first |-> FALSE]

Init ==
    /\ now = 0
    /\ cookie = EmptyDict
    /\ db_user = NewUser
    /\ req = [r \in Reqs |-> IdleReq]
    /\ last = NoOp
    /\ login_at = 0
    /\ base_total = 0
    /\ out_total = 0
    /\ backs = 0
    /\ had_logout = FALSE
    /\ ticked = FALSE
    /\ commit_failed = FALSE
    /\ overlap = FALSE
    /\ double_counted = FALSE
    /\ overwritten = FALSE
    /\ others_ran = FALSE
    /\ started = 0

AllIdle == \A r \in Reqs : req[r].pc = "idle"

-----------------------------------------------------------------------------
(* The clock *)

ClockAdvance(d) ==
    /\ now + d <= MaxTime
    /\ now' = now + d
    /\ last' = NoOp
    /\ UNCHANGED <<cookie, db_user, req, login_at, base_total, out_total,
                   backs, had_logout, ticked, commit_failed, overlap,
                   double_counted, overwritten, others_ran, started>>

\* the system clock is set backward (utcnow is not monotonic)
ClockBack(d) ==
    /\ backs < MaxBacks
    /\ now - d >= 0
    /\ now' = now - d
    /\ last' = NoOp
    /\ backs' = backs + 1
    /\ UNCHANGED <<cookie, db_user, req, login_at, base_total, out_total,
                   had_logout, ticked, commit_failed, overlap, double_counted,
                   overwritten, others_ran, started>>

-----------------------------------------------------------------------------
(* Handlers, one request at a time *)

\* login, lines 168-182, POST with valid credentials
login ==
    /\ AllIdle
    /\ ~is_authenticated(cookie)
    /\ cookie' = LoginSession(cookie, now)
    /\ last' = [op |-> "login", session |-> cookie, user |-> db_user,
                now |-> now, commit_ok |-> TRUE, first |-> FALSE]
    /\ login_at' = now
    /\ base_total' = TotalOf(db_user)
    /\ ticked' = FALSE
    /\ commit_failed' = FALSE
    /\ UNCHANGED <<now, db_user, req, out_total, backs, had_logout, overlap,
                   double_counted, overwritten, others_ran, started>>

\* logout, lines 185-191 (login_required)
logout ==
    /\ AllIdle
    /\ is_authenticated(cookie)
    /\ cookie' = LogoutSession(cookie)
    /\ last' = [op |-> "logout", session |-> cookie, user |-> db_user,
                now |-> now, commit_ok |-> TRUE, first |-> FALSE]
    /\ out_total' = TotalOf(db_user)
    /\ had_logout' = TRUE
    /\ UNCHANGED <<now, db_user, req, login_at, base_total, backs, ticked,
                   commit_failed, overlap, double_counted, overwritten,
                   others_ran, started>>

\* dashboard / profile, lines 194-197 and 355-358 (login_required): the
\* request loads the session and the user, runs update_time_spent and the
\* response stores the session
tick(commit_ok) ==
    /\ AllIdle
    /\ is_authenticated(cookie)
    /\ LET res == update_time_spent(cookie, db_user, db_user, now, commit_ok)
       IN  /\ cookie' = res.session
           /\ db_user' = res.db
    /\ last' = [op |-> "tick", session |-> cookie, user |-> db_user,
                now |-> now, commit_ok |-> commit_ok, first |-> ~ticked]
    /\ ticked' = TRUE
    /\ commit_failed' = (commit_failed \/ CommitFails(cookie, now, commit_ok))
    /\ UNCHANGED <<now, req, login_at, base_total, out_total, backs,
                   had_logout, overlap, double_counted, overwritten,
                   others_ran, started>>

Next ==
    \/ \E d \in Deltas : ClockAdvance(d)
    \/ login
    \/ logout
    \/ \E commit_ok \in BOOLEAN : tick(commit_ok)

Spec == Init /\ [][Next]_vars

\* the same handlers under a clock that may also be set back
NextSkew ==
    \/ \E d \in Deltas : ClockAdvance(d)
    \/ \E d \in Deltas : ClockBack(d)
    \/ login
    \/ logout
    \/ \E commit_ok \in BOOLEAN : tick(commit_ok)

SpecSkew == Init /\ [][NextSkew]_vars

-----------------------------------------------------------------------------
(* update_time_spent as a function of its inputs: any session, any user    *)
(* row, any clock value, called once                                       *)

FnTimes == {FnStep * i : i \in 0..MaxFnSlots}

FnSessions ==
    {EmptyDict, [k \in {"_user_id"} |-> 1]}
        \cup {[k \in {"session_start"} |-> t] : t \in FnTimes}
        \cup {LoginSession(EmptyDict, t) : t \in FnTimes}

\* total_minutes is a nullable column: NULL is the row without the key
FnUsers == {EmptyDict} \cup {[k \in {"total_minutes"} |-> n] : n \in 0..2}

InitFn ==
    /\ now \in FnTimes
    /\ cookie \in FnSessions
    /\ db_user \in FnUsers
    /\ req = [r \in Reqs |-> IdleReq]
    /\ last = NoOp
    /\ login_at = 0
    /\ base_total = 0
    /\ out_total = 0
    /\ backs = 0
    /\ had_logout = FALSE
    /\ ticked = FALSE
    /\ commit_failed = FALSE
    /\ overlap = FALSE
    /\ double_counted = FALSE
    /\ overwritten = FALSE
    /\ others_ran = FALSE
    /\ started = 0

call(commit_ok) ==
    /\ last.op = "none"
    /\ LET res == update_time_spent(cookie, db_user, db_user, now, commit_ok)
       IN  /\ cookie' = res.session
           /\ db_user' = res.db
    /\ last' = [op |-> "call", session |-> cookie, user |-> db_user,
                now |-> now, commit_ok |-> commit_ok, first |-> FALSE]
    /\ UNCHANGED <<now, req, login_at, base_total, out_total, backs,
                   had_logout, ticked, commit_failed, overlap, double_counted,
                   overwritten, others_ran, started>>

NextFn == \E commit_ok \in BOOLEAN : call(commit_ok)

SpecFn == InitFn /\ [][NextFn]_vars

-----------------------------------------------------------------------------
(* Requests of one user in flight together.  Each request works on its own *)
(* copy of the session (taken from the cookie the client sent) and its own *)
(* user object (loaded from the row when the server handles the request);  *)
(* the response's session replaces the client's cookie when the request    *)
(* modified it.  Other requests may run between the sending of the cookie  *)
(* and the loading of the user, and between the clock read of line 116 and *)
(* the commit of line 128.                                                 *)

\* dashboard and profile are "tick"; the other handlers that write the
\* session are login, logout, admin_login, admin_logout and the ones that
\* only flash a message: journal, mood, delete_journal_entry and register
\* (and login and admin_login when the credentials are wrong)
FlashKinds == {"journal", "mood", "delete_journal_entry", "register"}

\* handlers behind login_required
AuthKinds == {"tick", "logout", "journal", "mood", "delete_journal_entry"}

\* handlers that go on only when nobody is logged in (lines 142, 170)
AnonKinds == {"login", "register"}

Kinds == {"tick", "login", "logout", "admin_login", "admin_logout"}
             \cup FlashKinds

hist == <<last, backs, ticked>>

racehist == <<last, backs, ticked, started>>

RaceAdvance(d) ==
    /\ now + d <= MaxRaceTime
    /\ now' = now + d
    /\ UNCHANGED <<cookie, db_user, req, racehist, login_at, base_total,
                   out_total, had_logout, commit_failed, overlap,
                   double_counted, overwritten, others_ran>>

\* the client sends the request with the cookie it holds: the request's
\* session is fixed from here on.  login_required lets the handlers behind
\* it through when the session carries the user id, and login and register
\* go on when it does not (lines 142, 170)
ReqStart(r, kind) ==
    /\ req[r].pc = "idle"
    /\ started < MaxRequests
    /\ started' = started + 1
    /\ kind \in AuthKinds => is_authenticated(cookie)
    /\ kind \in AnonKinds => ~is_authenticated(cookie)
    /\ req' = [req EXCEPT ![r] =
                 [pc |-> "sent", kind |-> kind, session |-> cookie,
                  user |-> EmptyDict, read |-> cookie, modified |-> FALSE,
                  pending |-> 0, credit |-> 0]]
    /\ overlap' = (overlap \/ \E o \in Reqs \ {r} : req[o].pc # "idle")
    /\ UNCHANGED <<now, cookie, db_user, hist, login_at, base_total,
                   out_total, had_logout, commit_failed, double_counted,
                   overwritten, others_ran>>

\* load_user, lines 62-67, on the request's first use of current_user: the
\* row is read as it is persisted by then, which may be later than the
\* moment the cookie was sent; without a user id in the session the user is
\* anonymous and no row is read
ReqLoad(r) ==
    /\ req[r].pc = "sent"
    /\ req' = [req EXCEPT ![r].pc = "loaded",
                          ![r].user = IF is_authenticated(req[r].session)
                                      THEN db_user ELSE EmptyDict]
    /\ UNCHANGED <<now, cookie, db_user, racehist, login_at, base_total,
                   out_total, had_logout, commit_failed, overlap,
                   double_counted, overwritten, others_ran>>

\* update_time_spent, lines 113-126, on what the request holds
ReqCompute(r) ==
    /\ req[r].pc = "loaded"
    /\ req[r].kind = "tick"
    /\ LET c == BeforeCommit(req[r].session, req[r].user, now)
       IN  req' = [req EXCEPT ![r] =
                     [pc |-> IF c.commits THEN "commit" ELSE "ran",
                      kind |-> "tick", session |-> c.session,
                      user |-> c.user, read |-> req[r].read,
                      modified |-> (c.session # req[r].session),
                      pending |-> c.minutes, credit |-> 0]]
    /\ UNCHANGED <<now, cookie, db_user, racehist, login_at, base_total,
                   out_total, had_logout, commit_failed, overlap,
                   double_counted, overwritten, others_ran>>

\* update_time_spent, lines 127-130: the commit writes the value the request
\* computed from the row it loaded
ReqCommit(r, commit_ok) ==
    /\ req[r].pc = "commit"
    /\ db_user' = Commit(db_user, req[r].user, commit_ok)
    /\ req' = [req EXCEPT ![r].pc = "ran",
                          ![r].user = Commit(db_user, req[r].user, commit_ok),
                          ![r].credit = IF commit_ok THEN req[r].pending
                                        ELSE 0]
    /\ double_counted' =
          (double_counted \/
             /\ commit_ok
             /\ \E o \in Reqs \ {r} :
                   /\ req[o].pc = "ran"
                   /\ req[o].credit >= 1
                   /\ req[o].read = req[r].read
                   /\ TotalOf(req[r].user)
                        = TotalOf(req[o].user) + req[r].pending)
    /\ commit_failed' = (commit_failed \/ ~commit_ok)
    /\ UNCHANGED <<now, cookie, racehist, login_at, base_total, out_total,
                   had_logout, overlap, overwritten, others_ran>>

\* login with the user's credentials, lines 176-178
ReqLogin(r) ==
    /\ req[r].pc = "loaded"
    /\ req[r].kind = "login"
    /\ req' = [req EXCEPT ![r].pc = "ran",
                          ![r].session = LoginSession(req[r].session, now),
                          ![r].modified = TRUE]
    /\ login_at' = now
    /\ base_total' = TotalOf(db_user)
    /\ commit_failed' = FALSE
    /\ UNCHANGED <<now, cookie, db_user, racehist, out_total, had_logout,
                   overlap, double_counted, overwritten, others_ran>>

\* logout, lines 188-190
ReqLogout(r) ==
    /\ req[r].pc = "loaded"
    /\ req[r].kind = "logout"
    /\ req' = [req EXCEPT ![r].pc = "ran",
                          ![r].session = LogoutSession(req[r].session),
                          ![r].modified = TRUE]
    /\ out_total' = TotalOf(db_user)
    /\ had_logout' = TRUE
    /\ others_ran' = TRUE
    /\ UNCHANGED <<now, cookie, db_user, racehist, login_at, base_total,
                   commit_failed, overlap, double_counted, overwritten>>

\* admin_login with the admin's credentials, lines 372-375, and
\* admin_logout, lines 382-384
ReqAdmin(r) ==
    /\ req[r].pc = "loaded"
    /\ req[r].kind \in {"admin_login", "admin_logout"}
    /\ req' = [req EXCEPT ![r].pc = "ran",
                          ![r].session =
                              IF req[r].kind = "admin_login"
                              THEN AdminLoginSession(req[r].session)
                              ELSE AdminLogoutSession(req[r].session),
                          ![r].modified = TRUE]
    /\ others_ran' = TRUE
    /\ UNCHANGED <<now, cookie, db_user, racehist, login_at, base_total,
                   out_total, had_logout, commit_failed, overlap,
                   double_counted, overwritten>>

\* flash(...) of journal (239, 262), mood (301), delete_journal_entry
\* (279), register (150-163), login with wrong credentials (181) and
\* admin_login with wrong credentials (376): the message goes into the
\* session, which marks it modified; the keys modelled here keep their
\* values
ReqFlash(r) ==
    /\ req[r].pc = "loaded"
    /\ req[r].kind \in FlashKinds \cup {"login", "admin_login"}
    /\ req' = [req EXCEPT ![r].pc = "ran", ![r].modified = TRUE]
    /\ others_ran' = TRUE
    /\ UNCHANGED <<now, cookie, db_user, racehist, login_at, base_total,
                   out_total, had_logout, commit_failed, overlap,
                   double_counted, overwritten>>

\* a tick's response that stores its checkpoint over one that is neither
\* the one it read nor the one it writes
Overwrites(r) ==
    /\ req[r].kind = "tick"
    /\ Has(cookie, "session_start")
    /\ cookie["session_start"] # req[r].read["session_start"]
    /\ cookie["session_start"] # req[r].session["session_start"]

\* the response reaches the client: a modified session is stored as the
\* cookie, whatever the cookie holds by then
ReqRespond(r) ==
    /\ req[r].pc = "ran"
    /\ IF req[r].modified
       THEN /\ cookie' = req[r].session
            /\ overwritten' = (overwritten \/ Overwrites(r))
       ELSE UNCHANGED <<cookie, overwritten>>
    /\ req' = [req EXCEPT ![r] = IdleReq]
    /\ UNCHANGED <<now, db_user, racehist, login_at, base_total, out_total,
                   had_logout, commit_failed, overlap, double_counted,
                   others_ran>>

NextRace ==
    \/ \E d \in RaceDeltas : RaceAdvance(d)
    \/ \E r \in Reqs, kind \in Kinds : ReqStart(r, kind)
    \/ \E r \in Reqs : ReqLoad(r)
    \/ \E r \in Reqs : ReqCompute(r)
    \/ \E r \in Reqs, commit_ok \in BOOLEAN : ReqCommit(r, commit_ok)
    \/ \E r \in Reqs : ReqLogin(r)
    \/ \E r \in Reqs : ReqLogout(r)
    \/ \E r \in Reqs : ReqAdmin(r)
    \/ \E r \in Reqs : ReqFlash(r)
    \/ \E r \in Reqs : ReqRespond(r)

SpecRace == Init /\ [][NextRace]_vars

-----------------------------------------------------------------------------
(* What the last handler found and did *)

JustTicked == last.op = "tick" /\ Has(last.session, "session_start")

\* the checkpoint the last tick read, the time elapsed since it, and what
\* the tick added to the persisted total
PreStart == last.session["session_start"]

LastElapsed == last.now - PreStart

LastCredit == TotalOf(db_user) - TotalOf(last.user)

WholeMinutes(seconds) == seconds \div SecondsPerMinute

-----------------------------------------------------------------------------
(* Claims about one request at a time.  C1, C3, C4 and C10 are about a    *)
(* monotonic clock (Spec); C5, C6 and C9 also hold when the clock is set   *)
(* back (SpecSkew).                                                        *)

\* C1: after login and N ticks with no commit failure, the total credited
\* since the login equals floor(seconds from the login baseline to the N-th
\* tick / 60): nothing is counted twice and no remainder is lost.
C1_TotalIsFloorOfElapsed ==
    (JustTicked /\ ~commit_failed)
        => TotalOf(db_user) - base_total = WholeMinutes(last.now - login_at)

\* C3: a crediting tick whose commit fails leaves both the persisted total
\* and the session checkpoint as they were before the tick.
C3_FailedCommitIsAtomic ==
    (JustTicked /\ LastElapsed >= SecondsPerMinute /\ ~last.commit_ok)
        => (db_user = last.user /\ cookie = last.session)

\* C4: a tick with elapsed time e >= 60 credits floor(e / 60) minutes and
\* advances the checkpoint by exactly 60 * floor(e / 60) seconds.
C4_CheckpointAdvancesByWholeMinutes ==
    (JustTicked /\ LastElapsed >= SecondsPerMinute /\ last.commit_ok)
        => /\ LastCredit = WholeMinutes(LastElapsed)
           /\ cookie["session_start"] =
                  PreStart + SecondsPerMinute * WholeMinutes(LastElapsed)

\* C5: a tick with less than 60 seconds elapsed since the checkpoint leaves
\* the total and the checkpoint unchanged.
C5_ShortTickChangesNothing ==
    (JustTicked /\ LastElapsed < SecondsPerMinute)
        => (db_user = last.user /\ cookie = last.session)

C5_Witness ==
    /\ JustTicked
    /\ LastElapsed > 0
    /\ LastElapsed < SecondsPerMinute
    /\ ticked

\* C6 as stated: logout clears the checkpoint, and the first tick after the
\* next login adds nothing to the total.
C6_FirstTickAfterReloginAddsNothing ==
    /\ last.op = "logout" => ~Has(cookie, "session_start")
    /\ (JustTicked /\ last.first /\ had_logout) => LastCredit = 0

\* C6 as amended: logout clears the checkpoint and the next login sets it to
\* the login instant, so the first tick after that login starts from the
\* total as the logout left it and adds floor((tick time - login instant)/60)
\* when that is at least 1 and the commit succeeds, and 0 otherwise.
C6_FirstTickAfterReloginCountsFromLogin ==
    /\ last.op = "logout" => ~Has(cookie, "session_start")
    /\ (JustTicked /\ last.first /\ had_logout)
        => /\ TotalOf(last.user) = out_total
           /\ LastCredit =
                 IF last.commit_ok /\ WholeMinutes(last.now - login_at) >= 1
                 THEN WholeMinutes(last.now - login_at)
                 ELSE 0

C6_Witness ==
    /\ JustTicked
    /\ last.first
    /\ had_logout
    /\ out_total >= 1
    /\ LastCredit >= 1

\* C9: a tick that credits at least one minute sets the checkpoint to the
\* clock value of that tick, whatever the remainder of the elapsed time.
C9_CreditingTickSetsCheckpointToNow ==
    (JustTicked /\ LastCredit >= 1) => cookie["session_start"] = last.now

C9_Witness ==
    /\ JustTicked
    /\ LastCredit >= 1
    /\ LastElapsed % SecondsPerMinute # 0

\* C10: one request at a time under a non-decreasing clock, the minutes
\* added since a login never exceed floor((now - login instant) / 60), and
\* nothing is added while the user is logged out.
C10_NeverOverCredited ==
    /\ is_authenticated(cookie)
        => /\ base_total = out_total
           /\ TotalOf(db_user) - base_total <= WholeMinutes(now - login_at)
    /\ ~is_authenticated(cookie) => TotalOf(db_user) = out_total

C10_Witness ==
    /\ is_authenticated(cookie)
    /\ had_logout
    /\ login_at >= SecondsPerMinute
    /\ TotalOf(db_user) - base_total >= 1
    /\ TotalOf(db_user) - base_total = WholeMinutes(now - login_at)

-----------------------------------------------------------------------------
(* Claims under a clock that may be set back (SpecSkew) *)

\* C2: no step decreases the persisted total, and a tick that finds the
\* clock before its checkpoint (negative elapsed time) credits nothing.
C2_TotalNeverDecreases ==
    /\ [][TotalOf(db_user') >= TotalOf(db_user)]_vars
    /\ []((JustTicked /\ LastElapsed < 0) => db_user = last.user)

C2_Witness ==
    /\ JustTicked
    /\ LastElapsed < 0
    /\ TotalOf(db_user) >= 1

-----------------------------------------------------------------------------
(* update_time_spent on any input (SpecFn) *)

\* C7: a tick by an authenticated user that finds no checkpoint stores the
\* current time as the checkpoint and leaves the total unchanged.
C7_FirstTickOnlySetsBaseline ==
    (/\ last.op = "call"
     /\ is_authenticated(last.session)
     /\ ~Has(last.session, "session_start"))
        => /\ Has(cookie, "session_start")
           /\ cookie["session_start"] = last.now
           /\ Pop(cookie, "session_start") = last.session
           /\ db_user = last.user

C7_Witness ==
    /\ last.op = "call"
    /\ is_authenticated(last.session)
    /\ ~Has(last.session, "session_start")
    /\ last.now >= SecondsPerMinute
    /\ TotalOf(last.user) >= 1

-----------------------------------------------------------------------------
(* Requests in flight together (SpecRace) *)

OverCredited ==
    TotalOf(db_user) - base_total > WholeMinutes(now - login_at)

\* C8: ticks of one user are not mutually exclusive.  Crediting more than
\* floor(elapsed / 60) and replacing a checkpoint the request had not read
\* both happen (C8_Witness), and only after two requests were in flight
\* together.
C8_OverCreditOnlyWhenRequestsOverlap ==
    ~overlap => (~OverCredited /\ ~double_counted /\ ~overwritten)

\* after one login and with dashboard requests only: two requests read the
\* same checkpoint and the second added its minutes on top of the first's,
\* the total exceeds floor(elapsed / 60), and one request's response
\* replaced the checkpoint the other had stored
C8_Witness ==
    /\ ~others_ran
    /\ double_counted
    /\ OverCredited
    /\ overwritten

====
